---- MODULE Spec2Model ----
(***************************************************************************)
(* Kaleidoscope front end (src/lexer.cc, lines 500-1134): the lexer        *)
(* gettok, the recursive-descent / precedence-climbing parser, the         *)
(* lowering of the AST into the current module, the prototype registry     *)
(* FunctionProtos and the driver MainLoop.                                 *)
(*                                                                         *)
(* Characters are their codes (getchar returns an int), a string is the    *)
(* sequence of its characters' codes, a token is an int: a character code  *)
(* or one of the negative values of enum Token.                            *)
(***************************************************************************)
EXTENDS Integers, Sequences, FiniteSets, TLC

VARIABLES
    src,              \* how the text on standard input was composed (ghost)
    input,            \* the characters standard input delivers
    nread,            \* number of getchar() calls made so far
    LastChar,         \* gettok's static LastChar
    IdentifierStr,    \* payload of tok_identifier
    NumVal,           \* payload of tok_number
    CurTok,           \* the parser's one token of lookahead
    BinopPrecedence,  \* std::map<char,int>
    log,              \* the diagnostics LogError has printed
    TheModule,        \* functions of the module currently open
    FunctionProtos,   \* the prototype registry
    NamedValues,      \* the named-value scope of the function being lowered
    JIT,              \* modules handed to the JIT
    pc,               \* position of main: "start", "loop", "done"
    results,          \* one record per top-level form handled (history)
    toks              \* one record per gettok call of the lexer-only runs (history)

vars == <<src, input, nread, LastChar, IdentifierStr, NumVal, CurTok,
          BinopPrecedence, log, TheModule, FunctionProtos, NamedValues, JIT,
          pc, results, toks>>

(***************************************************************************)
(* Bounds of the model.                                                    *)
(***************************************************************************)
MaxLexLen == 4
MaxOperands == 3
MaxArgs == 2
MaxParams == 2
MaxForms == 3
MaxEofCalls == 2
MaxProtoToks == 4
MaxArgToks == 3
MaxRunForms == 3

(***************************************************************************)
(* Characters and character classes (<cctype>, "C" locale).                *)
(***************************************************************************)
CharCode ==
    ("a" :> 97) @@ ("b" :> 98) @@ ("c" :> 99) @@ ("d" :> 100) @@ ("e" :> 101) @@
    ("f" :> 102) @@ ("g" :> 103) @@ ("i" :> 105) @@ ("n" :> 110) @@ ("o" :> 111) @@
    ("p" :> 112) @@ ("r" :> 114) @@ ("s" :> 115) @@ ("t" :> 116) @@ ("x" :> 120) @@
    ("_" :> 95) @@ ("0" :> 48) @@ ("1" :> 49) @@ ("2" :> 50) @@ ("3" :> 51) @@
    ("4" :> 52) @@ ("5" :> 53) @@ ("." :> 46) @@ (" " :> 32) @@ ("\n" :> 10) @@
    ("\r" :> 13) @@ ("#" :> 35) @@ ("(" :> 40) @@ (")" :> 41) @@ ("," :> 44) @@
    (";" :> 59) @@ ("<" :> 60) @@ ("+" :> 43) @@ ("-" :> 45) @@ ("*" :> 42) @@
    ("=" :> 61) @@ ("/" :> 47)

\* The C string written as the tuple of its characters.
S(t) == [i \in 1..Len(t) |-> CharCode[t[i]]]

Ch(c) == CharCode[c]

EOF == -1

isspace(c) == c \in 9..13 \/ c = 32
isalpha(c) == c \in 65..90 \/ c \in 97..122
isdigit(c) == c \in 48..57
isalnum(c) == isalpha(c) \/ isdigit(c)
isascii(c) == c \in 0..127

(***************************************************************************)
(* enum Token.                                                             *)
(***************************************************************************)
tok_eof == -1
tok_def == -2
tok_extern == -3
tok_identifier == -4
tok_number == -5

(***************************************************************************)
(* The lexer.  Every operator takes and returns the record g of the        *)
(* globals it reads and writes.                                            *)
(***************************************************************************)

\* LastChar = getchar(): the next character of standard input, EOF at its end.
getchar(g) ==
    [g EXCEPT !.LastChar = IF g.nread < Len(g.input) THEN g.input[g.nread + 1] ELSE EOF,
              !.nread = @ + 1]

\* while (isspace(LastChar)) LastChar = getchar();
RECURSIVE SkipSpace(_)
SkipSpace(g) == IF isspace(g.LastChar) THEN SkipSpace(getchar(g)) ELSE g

\* while (isalnum(LastChar = getchar())) IdentifierStr += LastChar;
RECURSIVE IdentLoop(_)
IdentLoop(g) ==
    LET n == getchar(g) IN
    IF isalnum(n.LastChar)
    THEN IdentLoop([n EXCEPT !.IdentifierStr = Append(@, n.LastChar)])
    ELSE n

\* The token of an accumulated identifier: the two keywords, else tok_identifier.
KeywordPrefix(id) ==
    IF Len(id) >= 3 /\ SubSeq(id, 1, 3) = S(<<"d","e","f">>) THEN tok_def
    ELSE IF Len(id) >= 6 /\ SubSeq(id, 1, 6) = S(<<"e","x","t","e","r","n">>) THEN tok_extern
    ELSE tok_identifier

Keyword(id) ==
    IF id = S(<<"d","e","f">>) THEN tok_def
    ELSE IF id = S(<<"e","x","t","e","r","n">>) THEN tok_extern
    ELSE tok_identifier

\* do { NumStr += LastChar; LastChar = getchar(); } while (isdigit(LastChar) || LastChar == '.');
RECURSIVE NumLoop(_, _)
NumLoop(g, NumStr) ==
    LET s == Append(NumStr, g.LastChar)
        n == getchar(g) IN
    IF isdigit(n.LastChar) \/ n.LastChar = Ch(".")
    THEN NumLoop(n, s)
    ELSE [g |-> n, NumStr |-> s]

\* The value of a string of digits.
RECURSIVE DigitsVal(_)
DigitsVal(ds) ==
    IF ds = <<>> THEN 0
    ELSE 10 * DigitsVal(SubSeq(ds, 1, Len(ds) - 1)) + (ds[Len(ds)] - 48)

\* The longest prefix of s made of digits.
RECURSIVE DigitPrefix(_)
DigitPrefix(s) ==
    IF s # <<>> /\ isdigit(Head(s)) THEN <<Head(s)>> \o DigitPrefix(Tail(s)) ELSE <<>>

\* A decimal value m / 10^e in lowest terms of e.
RECURSIVE Decimal(_, _)
Decimal(m, e) == IF e > 0 /\ m % 10 = 0 THEN Decimal(m \div 10, e - 1) ELSE [m |-> m, e |-> e]

\* strtod on a string of digits and '.': the value of the longest prefix that is
\* a decimal number (digits, at most one '.', at least one digit), 0 when there
\* is none.
strtod(NumStr) ==
    LET ip   == DigitPrefix(NumStr)
        rest == SubSeq(NumStr, Len(ip) + 1, Len(NumStr))
        fp   == IF rest # <<>> /\ Head(rest) = Ch(".") THEN DigitPrefix(Tail(rest)) ELSE <<>>
    IN Decimal(DigitsVal(ip \o fp), Len(fp))

\* The comment loop, run until '\n' or end of file only.
RECURSIVE CommentLoop(_)
CommentLoopToNewline(g) ==
    IF getchar(g).LastChar # EOF /\ getchar(g).LastChar # Ch("\n")
    THEN CommentLoop(getchar(g))
    ELSE getchar(g)

\* do { LastChar = getchar(); } while (LastChar != EOF && LastChar != '\n' && LastChar != '\r');
CommentLoop(g) ==
    LET n == getchar(g) IN
    IF n.LastChar # EOF /\ n.LastChar # Ch("\n") /\ n.LastChar # Ch("\r")
    THEN CommentLoop(n)
    ELSE n

\* The tail of gettok advancing two characters behind a character token.
CharTokenEatsTwo(g) ==
    IF g.LastChar = EOF
    THEN [g |-> g, tok |-> tok_eof]
    ELSE [g |-> getchar(getchar(g)), tok |-> g.LastChar]

\* The tail of gettok calling getchar() once more at the end of file.
CharTokenReadsOn(g) ==
    IF g.LastChar = EOF
    THEN [g |-> getchar(g), tok |-> tok_eof]
    ELSE [g |-> getchar(g), tok |-> g.LastChar]

\* The tail of gettok: end of file, or the character itself as the token.
CharToken(g) ==
    IF g.LastChar = EOF
    THEN [g |-> g, tok |-> tok_eof]
    ELSE [g |-> getchar(g), tok |-> g.LastChar]

\* gettok(): the updated globals and the token returned.
RECURSIVE gettok(_)
gettok(g0) ==
    LET g == SkipSpace(g0) IN
    IF isalpha(g.LastChar) THEN
        LET n == IdentLoop([g EXCEPT !.IdentifierStr = <<g.LastChar>>])
        IN [g |-> n, tok |-> Keyword(n.IdentifierStr)]
    ELSE IF isdigit(g.LastChar) \/ g.LastChar = Ch(".") THEN
        LET r == NumLoop(g, <<>>)
        IN [g |-> [r.g EXCEPT !.NumVal = strtod(r.NumStr)], tok |-> tok_number]
    ELSE IF g.LastChar = Ch("#") THEN
        LET n == CommentLoop(g) IN
        IF n.LastChar # EOF THEN gettok(n) ELSE CharToken(n)
    ELSE CharToken(g)

\* getNextToken(): CurTok = gettok().
getNextToken(g) ==
    LET r == gettok(g) IN [r.g EXCEPT !.CurTok = r.tok]

(***************************************************************************)
(* The AST (src/lexer.cc:604-672).  nullptr is Null.                       *)
(***************************************************************************)
Null == [k |-> "null"]

NumberExprAST(Val) == [k |-> "Number", Val |-> Val]
VariableExprAST(Name) == [k |-> "Variable", Name |-> Name]
BinaryExprAST(Op, LHS, RHS) == [k |-> "Binary", Op |-> Op, LHS |-> LHS, RHS |-> RHS]
CallExprAST(Callee, Args) == [k |-> "Call", Callee |-> Callee, Args |-> Args]
PrototypeAST(Name, Args) == [k |-> "Prototype", Name |-> Name, Args |-> Args]
FunctionAST(Proto, Body) == [k |-> "Function", Proto |-> Proto, Body |-> Body]

(***************************************************************************)
(* The parser.  A parsing operator returns [g, r]: the updated globals and *)
(* the node built, Null on failure.                                        *)
(***************************************************************************)

\* GetTokPrecedence() without if (TokPrec <= 0) return -1.
GetTokPrecedenceNoFloor(g) ==
    IF ~isascii(g.CurTok) THEN [g |-> g, prec |-> -1]
    ELSE IF g.CurTok \in DOMAIN g.BinopPrecedence
         THEN [g |-> g, prec |-> g.BinopPrecedence[g.CurTok]]
    ELSE [g |-> [g EXCEPT !.BinopPrecedence = @ @@ (g.CurTok :> 0)], prec |-> 0]

\* GetTokPrecedence(): BinopPrecedence[CurTok] inserts a 0 entry for a key the
\* map does not hold yet (std::map::operator[]).
GetTokPrecedence(g) ==
    IF ~isascii(g.CurTok) THEN [g |-> g, prec |-> -1]
    ELSE
        LET m == IF g.CurTok \in DOMAIN g.BinopPrecedence
                 THEN g.BinopPrecedence
                 ELSE g.BinopPrecedence @@ (g.CurTok :> 0)
            TokPrec == m[g.CurTok]
        IN [g |-> [g EXCEPT !.BinopPrecedence = m],
            prec |-> IF TokPrec <= 0 THEN -1 ELSE TokPrec]

\* LogError(Str): prints the diagnostic, returns nullptr.
LogError(g, Str) == [g |-> [g EXCEPT !.log = Append(@, Str)], r |-> Null]

\* The literal built from NumVal after the next token was fetched.
ParseNumberExprLate(g) ==
    [g |-> getNextToken(g), r |-> NumberExprAST(getNextToken(g).NumVal)]

\* auto Result = make_unique<NumberExprAST>(NumVal); getNextToken();
ParseNumberExpr(g) ==
    [g |-> getNextToken(g), r |-> NumberExprAST(g.NumVal)]

RECURSIVE ParseExpression(_)
RECURSIVE ParsePrimary(_)
RECURSIVE ParseBinOpRHS(_, _, _)
RECURSIVE ParseArgs(_, _)

\* The closing parenthesis checked and left as the current token.
ParenCloseNoEat(V) ==
    IF V.r = Null THEN V
    ELSE IF V.g.CurTok # Ch(")") THEN LogError(V.g, "Expected )")
    ELSE V

\* ParseParenExpr after V = ParseExpression(): the closing parenthesis.
ParenClose(V) ==
    IF V.r = Null THEN V
    ELSE IF V.g.CurTok # Ch(")") THEN LogError(V.g, "Expected )")
    ELSE [g |-> getNextToken(V.g), r |-> V.r]

ParseParenExpr(g0) == ParenClose(ParseExpression(getNextToken(g0)))

\* The loop over the arguments taking a ')' behind a ',' as the end of the list.
ArgsNextTrailingComma(Arg, Args) ==
    IF Arg.r = Null THEN Arg
    ELSE IF Arg.g.CurTok = Ch(")")
         THEN [g |-> Arg.g, r |-> [k |-> "Args", Args |-> Append(Args, Arg.r)]]
    ELSE IF Arg.g.CurTok # Ch(",")
         THEN LogError(Arg.g, "Expected ')' or ',' in argument list")
    ELSE IF getNextToken(Arg.g).CurTok = Ch(")")
         THEN [g |-> getNextToken(Arg.g), r |-> [k |-> "Args", Args |-> Append(Args, Arg.r)]]
    ELSE ParseArgs(getNextToken(Arg.g), Append(Args, Arg.r))

\* The while (true) loop of ParseIdentifierExpr after Arg = ParseExpression():
\* r holds the argument list, and is Null when an argument failed to parse or
\* the separator is wrong.
ArgsNext(Arg, Args) ==
    IF Arg.r = Null THEN Arg
    ELSE IF Arg.g.CurTok = Ch(")")
         THEN [g |-> Arg.g, r |-> [k |-> "Args", Args |-> Append(Args, Arg.r)]]
    ELSE IF Arg.g.CurTok # Ch(",")
         THEN LogError(Arg.g, "Expected ')' or ',' in argument list")
    ELSE ParseArgs(getNextToken(Arg.g), Append(Args, Arg.r))

ParseArgs(g, Args) == ArgsNext(ParseExpression(g), Args)

\* ParseIdentifierExpr after the argument list A: eats the ')'.
CallClose(IdName, A) ==
    IF A.r = Null THEN A
    ELSE [g |-> getNextToken(A.g), r |-> CallExprAST(IdName, A.r.Args)]

\* The argument list without the test for an empty one.
CallArgsNoEmpty(IdName, g2) == CallClose(IdName, ParseArgs(g2, <<>>))

\* ParseIdentifierExpr after the '(' was eaten: if (CurTok != ')') { ... }
CallArgs(IdName, g2) ==
    CallClose(IdName, IF g2.CurTok # Ch(")")
                      THEN ParseArgs(g2, <<>>)
                      ELSE [g |-> g2, r |-> [k |-> "Args", Args |-> <<>>]])

\* ParseIdentifierExpr after the identifier was eaten.
IdentifierRest(IdName, g1) ==
    IF g1.CurTok # Ch("(") THEN [g |-> g1, r |-> VariableExprAST(IdName)]
    ELSE CallArgs(IdName, getNextToken(g1))

ParseIdentifierExpr(g0) == IdentifierRest(g0.IdentifierStr, getNextToken(g0))

ParsePrimary(g) ==
    IF g.CurTok = tok_identifier THEN ParseIdentifierExpr(g)
    ELSE IF g.CurTok = tok_number THEN ParseNumberExpr(g)
    ELSE IF g.CurTok = Ch("(") THEN ParseParenExpr(g)
    ELSE LogError(g, "Unknown token when expecting an expression")

\* The test of line 804 the other way round.
BindsLooser(TokPrec, NextPrec) == TokPrec > NextPrec

\* if (TokPrec < NextPrec): the operator after RHS takes RHS as its LHS.
BindsTighter(TokPrec, NextPrec) == TokPrec < NextPrec

\* if (TokPrec < ExprPrec) return LHS;
EndsOperand(TokPrec, ExprPrec) == TokPrec < ExprPrec

\* ParseBinOpRHS after the right operand is complete: LHS = BinaryExprAST(...)
\* and round the loop again.
BinOpMerge(ExprPrec, LHS, BinOp, RHS) ==
    IF RHS.r = Null THEN RHS
    ELSE ParseBinOpRHS(ExprPrec, BinaryExprAST(BinOp, LHS, RHS.r), RHS.g)

\* The right operand taking every following operator that binds as tight.
BinOpNextRightAssoc(ExprPrec, LHS, TokPrec, BinOp, RHS, N) ==
    BinOpMerge(ExprPrec, LHS, BinOp,
               IF TokPrec <= N.prec
               THEN ParseBinOpRHS(TokPrec, RHS, N.g)
               ELSE [g |-> N.g, r |-> RHS])

\* ParseBinOpRHS after N = GetTokPrecedence() of the token behind RHS.
BinOpNext(ExprPrec, LHS, TokPrec, BinOp, RHS, N) ==
    BinOpMerge(ExprPrec, LHS, BinOp,
               IF BindsTighter(TokPrec, N.prec)
               THEN ParseBinOpRHS(TokPrec + 1, RHS, N.g)
               ELSE [g |-> N.g, r |-> RHS])

\* ParseBinOpRHS after RHS = ParsePrimary().
BinOpRHS(ExprPrec, LHS, TokPrec, BinOp, RHS) ==
    IF RHS.r = Null THEN RHS
    ELSE BinOpNext(ExprPrec, LHS, TokPrec, BinOp, RHS.r, GetTokPrecedence(RHS.g))

\* One round of the loop of ParseBinOpRHS, P = GetTokPrecedence().
BinOpLoop(ExprPrec, LHS, P) ==
    IF EndsOperand(P.prec, ExprPrec) THEN [g |-> P.g, r |-> LHS]
    ELSE BinOpRHS(ExprPrec, LHS, P.prec, P.g.CurTok, ParsePrimary(getNextToken(P.g)))

ParseBinOpRHS(ExprPrec, LHS, g0) == BinOpLoop(ExprPrec, LHS, GetTokPrecedence(g0))

\* ParseExpression after LHS = ParsePrimary().
ExpressionRest(LHS) ==
    IF LHS.r = Null THEN LHS
    ELSE ParseBinOpRHS(0, LHS.r, LHS.g)

ParseExpression(g) == ExpressionRest(ParsePrimary(g))

RECURSIVE ParseArgNames(_, _)

\* The loop over the parameter names stepping over a ',' between them.
ArgNamesNextCommas(n, ArgNames) ==
    IF n.CurTok = tok_identifier
    THEN ParseArgNames(n, Append(ArgNames, n.IdentifierStr))
    ELSE IF n.CurTok = Ch(",") THEN ParseArgNames(n, ArgNames)
    ELSE [g |-> n, ArgNames |-> ArgNames]

\* while (getNextToken() == tok_identifier) ArgNames.push_back(IdentifierStr);
ArgNamesNext(n, ArgNames) ==
    IF n.CurTok = tok_identifier
    THEN ParseArgNames(n, Append(ArgNames, n.IdentifierStr))
    ELSE [g |-> n, ArgNames |-> ArgNames]

ParseArgNames(g, ArgNames) == ArgNamesNext(getNextToken(g), ArgNames)

\* ParsePrototype after the parameter names: the closing parenthesis.
PrototypeClose(FnName, A) ==
    IF A.g.CurTok # Ch(")") THEN LogError(A.g, "Expected ')' in prototype")
    ELSE [g |-> getNextToken(A.g), r |-> PrototypeAST(FnName, A.ArgNames)]

\* ParsePrototype after the function name was eaten.
PrototypeArgs(FnName, g1) ==
    IF g1.CurTok # Ch("(") THEN LogError(g1, "Expected '(' in prototype")
    ELSE PrototypeClose(FnName, ParseArgNames(g1, <<>>))

ParsePrototype(g0) ==
    IF g0.CurTok # tok_identifier
    THEN LogError(g0, "Expected function name in prototype")
    ELSE PrototypeArgs(g0.IdentifierStr, getNextToken(g0))

\* ParseDefinition building the definition around a body that failed.
DefinitionNodeDefaultBody(Proto, E) ==
    IF E.r # Null THEN [g |-> E.g, r |-> FunctionAST(Proto, E.r)]
    ELSE [g |-> E.g, r |-> FunctionAST(Proto, NumberExprAST([m |-> 0, e |-> 0]))]

\* ParseDefinition after E = ParseExpression().
DefinitionNode(Proto, E) ==
    IF E.r # Null THEN [g |-> E.g, r |-> FunctionAST(Proto, E.r)] ELSE E

\* ParseDefinition reporting a prototype that failed once more.
DefinitionBodyLogsAgain(Proto) ==
    IF Proto.r = Null THEN LogError(Proto.g, "Expected prototype")
    ELSE DefinitionNode(Proto.r, ParseExpression(Proto.g))

\* ParseDefinition after Proto = ParsePrototype().
DefinitionBody(Proto) ==
    IF Proto.r = Null THEN Proto
    ELSE DefinitionNode(Proto.r, ParseExpression(Proto.g))

\* ParseDefinition that leaves the def keyword where it is.
ParseDefinitionNoEat(g0) == DefinitionBody(ParsePrototype(g0))

ParseDefinition(g0) == DefinitionBody(ParsePrototype(getNextToken(g0)))

\* The name of the function that wraps a top-level expression.
AnonExpr == S(<<"_","_","a","n","o","n","_","e","x","p","r">>)

\* The wrapper with an empty name.
TopLevelNodeUnnamed(E) ==
    IF E.r # Null
    THEN [g |-> E.g, r |-> FunctionAST(PrototypeAST(<<>>, <<>>), E.r)]
    ELSE E

\* ParseTopLevelExpr after E = ParseExpression().
TopLevelNode(E) ==
    IF E.r # Null
    THEN [g |-> E.g, r |-> FunctionAST(PrototypeAST(AnonExpr, <<>>), E.r)]
    ELSE E

ParseTopLevelExpr(g0) == TopLevelNode(ParseExpression(g0))

ParseExtern(g0) == ParsePrototype(getNextToken(g0))

(***************************************************************************)
(* Lowering (src/lexer.cc:880-1015).  TheModule maps a function's name to  *)
(* its argument names and its body (Null for a declaration); a Function*   *)
(* is [k |-> "Function", Name |-> its name in the module]; a Value* is a   *)
(* record naming the instruction, nullptr is Null.  A lowering operator    *)
(* returns [g, v].                                                         *)
(***************************************************************************)

\* The decimal digits of n > 0.
RECURSIVE Digits(_)
Digits(n) == IF n < 10 THEN <<48 + n>> ELSE Digits(n \div 10) \o <<48 + (n % 10)>>

\* LLVM's symbol tables keep names unique: a name already taken gets a number
\* appended (after a '.' for a global).
RECURSIVE UniqueName(_, _, _, _)
UniqueName(Name, taken, sep, n) ==
    IF Name \notin taken THEN Name
    ELSE IF (Name \o sep \o Digits(n)) \notin taken THEN Name \o sep \o Digits(n)
    ELSE UniqueName(Name, taken, sep, n + 1)

\* for (auto &Arg : F->args()) Arg.setName(Args[Idx++]);
RECURSIVE SetArgNames(_, _)
SetArgNames(Args, done) ==
    IF Args = <<>> THEN done
    ELSE SetArgNames(Tail(Args),
                     Append(done, UniqueName(Head(Args), {done[i] : i \in DOMAIN done}, <<>>, 1)))

FunctionRef(Name) == [k |-> "Function", Name |-> Name]

\* PrototypeAST::codegen(): Function::Create in TheModule, a declaration.
PrototypeAST_codegen(g, P) ==
    LET Name == UniqueName(P.Name, DOMAIN g.TheModule, <<Ch(".")>>, 1)
        F    == [Args |-> SetArgNames(P.Args, <<>>), Body |-> Null]
    IN [g |-> [g EXCEPT !.TheModule = (Name :> F) @@ @], v |-> FunctionRef(Name)]

\* getFunction that looks in the open module alone.
getFunctionModuleOnly(g, Name) ==
    IF Name \in DOMAIN g.TheModule THEN [g |-> g, v |-> FunctionRef(Name)]
    ELSE [g |-> g, v |-> Null]

\* getFunction(Name): the function of the open module, else a fresh
\* declaration generated from the registry, else nullptr.
getFunction(g, Name) ==
    IF Name \in DOMAIN g.TheModule THEN [g |-> g, v |-> FunctionRef(Name)]
    ELSE IF Name \in DOMAIN g.FunctionProtos
         THEN PrototypeAST_codegen(g, g.FunctionProtos[Name])
    ELSE [g |-> g, v |-> Null]

\* LogErrorV(Str)
LogErrorV(g, Str) == [g |-> [g EXCEPT !.log = Append(@, Str)], v |-> Null]

NumberExprAST_codegen(g, E) == [g |-> g, v |-> [k |-> "ConstantFP", Val |-> E.Val]]

\* Value *V = NamedValues[Name]: operator[] inserts a null entry for a new key.
VariableExprAST_codegen(g, E) ==
    LET nv == IF E.Name \in DOMAIN g.NamedValues
              THEN g.NamedValues
              ELSE (E.Name :> Null) @@ g.NamedValues
        V  == nv[E.Name]
        g1 == [g EXCEPT !.NamedValues = nv]
    IN IF V = Null
       THEN [g |-> LogErrorV(g1, "Unknown variable name").g, v |-> V]
       ELSE [g |-> g1, v |-> V]

\* switch (Op) of BinaryExprAST::codegen
BinaryInstr(g, Op, L, R) ==
    IF Op = Ch("+") THEN [g |-> g, v |-> [k |-> "FAdd", L |-> L, R |-> R]]
    ELSE IF Op = Ch("-") THEN [g |-> g, v |-> [k |-> "FSub", L |-> L, R |-> R]]
    ELSE IF Op = Ch("*") THEN [g |-> g, v |-> [k |-> "FMul", L |-> L, R |-> R]]
    ELSE IF Op = Ch("<")
         THEN [g |-> g, v |-> [k |-> "UIToFP", L |-> [k |-> "FCmpULT", L |-> L, R |-> R]]]
    ELSE LogErrorV(g, "Invalid binary operator")

RECURSIVE codegen(_, _)
RECURSIVE ArgsCodegen(_, _, _)

\* BinaryExprAST::codegen() after both operands were lowered.
BinaryResult(L, R, Op) ==
    IF L.v = Null \/ R.v = Null THEN [g |-> R.g, v |-> Null]
    ELSE BinaryInstr(R.g, Op, L.v, R.v)

\* BinaryExprAST::codegen() after L = LHS->codegen().
BinaryRight(L, E) == BinaryResult(L, codegen(L.g, E.RHS), E.Op)

BinaryExprAST_codegen(g, E) == BinaryRight(codegen(g, E.LHS), E)

\* for (i ...) { ArgsV.push_back(Args[i]->codegen()); if (!ArgsV.back()) return nullptr; }
ArgsCodegenNext(A, Args, ArgsV) ==
    IF A.v = Null THEN A
    ELSE ArgsCodegen(A.g, Tail(Args), Append(ArgsV, A.v))

ArgsCodegen(g, Args, ArgsV) ==
    IF Args = <<>> THEN [g |-> g, v |-> [k |-> "ArgsV", ArgsV |-> ArgsV]]
    ELSE ArgsCodegenNext(codegen(g, Head(Args)), Args, ArgsV)

\* if (!CalleeF) return LogErrorV("Unknown function referenced");
UnknownFunction(g, Callee) ==
    LogErrorV([g EXCEPT !.unresolved = Append(@, Callee)], "Unknown function referenced")

\* CallExprAST::codegen() after the arguments were lowered.
CallInstr(F, A) ==
    IF A.v = Null THEN A
    ELSE [g |-> A.g, v |-> [k |-> "Call", F |-> F, ArgsV |-> A.v.ArgsV]]

\* CallExprAST::codegen() after CalleeF = getFunction(Callee).
CallResolved(CalleeF, E) ==
    IF CalleeF.v = Null THEN UnknownFunction(CalleeF.g, E.Callee)
    ELSE IF Len(CalleeF.g.TheModule[CalleeF.v.Name].Args) # Len(E.Args)
         THEN LogErrorV(CalleeF.g, "Incorrect # arguments passed")
    ELSE CallInstr(CalleeF.v.Name, ArgsCodegen(CalleeF.g, E.Args, <<>>))

CallExprAST_codegen(g, E) == CallResolved(getFunction(g, E.Callee), E)

codegen(g, E) ==
    IF E.k = "Number" THEN NumberExprAST_codegen(g, E)
    ELSE IF E.k = "Variable" THEN VariableExprAST_codegen(g, E)
    ELSE IF E.k = "Binary" THEN BinaryExprAST_codegen(g, E)
    ELSE CallExprAST_codegen(g, E)

\* FunctionProtos[Name] = std::move(Proto): only when the name is new.
RecordProtoIfAbsent(protos, P) ==
    IF P.Name \in DOMAIN protos THEN protos ELSE (P.Name :> P) @@ protos

\* FunctionProtos[Name] = std::move(Proto)
RecordProto(protos, P) == (P.Name :> P) @@ protos

\* NamedValues.clear(); for (auto &Arg : TheFunction->args()) NamedValues[Arg.getName()] = &Arg;
ArgScope(FnName, Args) ==
    [n \in {Args[i] : i \in DOMAIN Args} |-> [k |-> "Argument", F |-> FnName, Name |-> n]]

\* TheFunction->eraseFromParent()
EraseFromParent(M, Name) == [n \in DOMAIN M \ {Name} |-> M[n]]

\* The function erased together with its entry in the registry.
FunctionFinishForgets(F, RetVal) ==
    IF RetVal.v # Null
    THEN [g |-> [RetVal.g EXCEPT !.TheModule[F].Body = RetVal.v], v |-> FunctionRef(F)]
    ELSE [g |-> [RetVal.g EXCEPT !.TheModule = EraseFromParent(@, F),
                                 !.FunctionProtos = EraseFromParent(@, F)],
          v |-> Null]

\* FunctionAST::codegen() after RetVal = Body->codegen().
FunctionFinish(F, RetVal) ==
    IF RetVal.v # Null
    THEN [g |-> [RetVal.g EXCEPT !.TheModule[F].Body = RetVal.v], v |-> FunctionRef(F)]
    ELSE [g |-> [RetVal.g EXCEPT !.TheModule = EraseFromParent(@, F)], v |-> Null]

\* FunctionAST::codegen() with the scope set: lowers the body.
FunctionBody(F, g2, Body) ==
    FunctionFinish(F, codegen([g2 EXCEPT !.scope = DOMAIN g2.NamedValues], Body))

\* FunctionAST::codegen() after TheFunction = getFunction(P.getName()).
FunctionScope(TheFunction, Body) ==
    IF TheFunction.v = Null THEN TheFunction
    ELSE FunctionBody(TheFunction.v.Name,
                      [TheFunction.g EXCEPT !.NamedValues =
                          ArgScope(TheFunction.v.Name,
                                   TheFunction.g.TheModule[TheFunction.v.Name].Args)],
                      Body)

\* FunctionAST::codegen()
FunctionAST_codegen(g0, Fn) ==
    FunctionScope(getFunction([g0 EXCEPT !.FunctionProtos = RecordProto(@, Fn.Proto)],
                              Fn.Proto.Name),
                  Fn.Body)

(***************************************************************************)
(* Running a top-level expression (src/lexer.cc:1059-1068): the JIT        *)
(* resolves a called symbol to its latest definition among the modules     *)
(* added, else in the host process.  The language has no control flow, so  *)
(* a call that reaches itself never returns; a symbol no module defines    *)
(* is resolved or not as the host process has it or not.                   *)
(***************************************************************************)

\* The names of the functions a value calls.
RECURSIVE CalleesOf(_)
RECURSIVE CalleesOfAll(_)
CalleesOf(v) ==
    IF v.k = "Call" THEN {v.F} \cup CalleesOfAll(v.ArgsV)
    ELSE IF v.k \in {"FAdd", "FSub", "FMul", "FCmpULT"} THEN CalleesOf(v.L) \cup CalleesOf(v.R)
    ELSE IF v.k = "UIToFP" THEN CalleesOf(v.L)
    ELSE {}

CalleesOfAll(vs) == IF vs = <<>> THEN {} ELSE CalleesOf(Head(vs)) \cup CalleesOfAll(Tail(vs))

\* findSymbol(Name): the body of the latest definition of Name, Null when
\* no module added to the JIT defines it.
RECURSIVE FindSymbol(_, _)
FindSymbol(mods, Name) ==
    IF mods = <<>> THEN Null
    ELSE LET M == mods[Len(mods)] IN
         IF Name \in DOMAIN M /\ M[Name].Body # Null THEN M[Name].Body
         ELSE FindSymbol(SubSeq(mods, 1, Len(mods) - 1), Name)

\* Running Name calls Name again.
RECURSIVE Recurses(_, _, _)
Recurses(mods, Name, path) ==
    \/ Name \in path
    \/ /\ FindSymbol(mods, Name) # Null
       /\ \E c \in CalleesOf(FindSymbol(mods, Name)) : Recurses(mods, c, path \cup {Name})

\* Running Name needs a symbol that no module defines.
RECURSIVE NeedsHost(_, _, _)
NeedsHost(mods, Name, path) ==
    /\ Name \notin path
    /\ \/ FindSymbol(mods, Name) = Null
       \/ \E c \in CalleesOf(FindSymbol(mods, Name)) : NeedsHost(mods, c, path \cup {Name})

\* FP(): "returned" after printing the value, "aborted" when the call does
\* not come back.
RunOutcomes(mods) ==
    IF Recurses(mods, AnonExpr, {}) THEN {"aborted"}
    ELSE IF NeedsHost(mods, AnonExpr, {}) THEN {"returned", "aborted"}
    ELSE {"returned"}

(***************************************************************************)
(* The program state as the record the operators work on, and back.        *)
(***************************************************************************)
Globals ==
    [input |-> input, nread |-> nread, LastChar |-> LastChar,
     IdentifierStr |-> IdentifierStr, NumVal |-> NumVal, CurTok |-> CurTok,
     BinopPrecedence |-> BinopPrecedence, log |-> log, TheModule |-> TheModule,
     FunctionProtos |-> FunctionProtos, NamedValues |-> NamedValues,
     unresolved |-> <<>>, scope |-> {}, stop |-> 0, stopAt |-> 0, diags |-> 0]

Store(g) ==
    /\ nread' = g.nread
    /\ LastChar' = g.LastChar
    /\ IdentifierStr' = g.IdentifierStr
    /\ NumVal' = g.NumVal
    /\ CurTok' = g.CurTok
    /\ BinopPrecedence' = g.BinopPrecedence
    /\ log' = g.log
    /\ TheModule' = g.TheModule
    /\ FunctionProtos' = g.FunctionProtos
    /\ NamedValues' = g.NamedValues

\* else { getNextToken(); } of the three handlers: one token is skipped
\* after a parse that failed.
SkipToken(g) == getNextToken(g)

\* A parse of a top-level form has returned: the history notes the token it
\* stopped at, how far standard input was read and how many diagnostics the
\* parse printed.
ParseDone(P) ==
    [P EXCEPT !.g.stop = P.g.CurTok, !.g.stopAt = P.g.nread,
              !.g.diags = Len(P.g.log) - Len(log)]

\* What the history keeps of a top-level form: the handler, the node parsed
\* (Null: the parse failed), the function lowered (Null: none), the callees
\* getFunction did not find, the named-value scope the body was lowered in,
\* the token the form started at, the token the parse stopped at, how far
\* standard input was read when the parse returned and when the handler
\* returned, the token MainLoop goes on with, the diagnostics of the parse,
\* and whether the handler changed
\* the registry, the open module or the named values.
Handled(kind, ast, ir, g) ==
    [kind |-> kind, ast |-> ast, ir |-> ir, unknown |-> g.unresolved, scope |-> g.scope,
     start |-> CurTok, stop |-> g.stop, stopAt |-> g.stopAt, resumeAt |-> g.nread,
     resume |-> g.CurTok,
     diags |-> g.diags,
     touched |-> <<g.FunctionProtos, g.TheModule, g.NamedValues>>
                   # <<FunctionProtos, TheModule, NamedValues>>]

(***************************************************************************)
(* main and MainLoop (src/lexer.cc:1029-1134).                             *)
(***************************************************************************)

\* main up to the call of MainLoop: the precedence table, the first token,
\* the JIT and the first module.
Main ==
    /\ pc = "start"
    /\ LET g0 == [Globals EXCEPT !.BinopPrecedence =
                     (Ch("<") :> 10) @@ (Ch("+") :> 20) @@ (Ch("-") :> 20) @@ (Ch("*") :> 40)]
           g1 == getNextToken(g0)
       IN Store([g1 EXCEPT !.TheModule = <<>>])
    /\ JIT' = <<>>
    /\ pc' = "loop"
    /\ UNCHANGED <<src, input, results, toks>>

\* case tok_eof: return;
MainLoopEof ==
    /\ pc = "loop"
    /\ CurTok = tok_eof
    /\ pc' = "done"
    /\ UNCHANGED <<src, input, nread, LastChar, IdentifierStr, NumVal, CurTok,
                   BinopPrecedence, log, TheModule, FunctionProtos, NamedValues,
                   JIT, results, toks>>

\* case ';': getNextToken();
MainLoopSemicolon ==
    /\ pc = "loop"
    /\ CurTok = Ch(";")
    /\ Store(getNextToken(Globals))
    /\ UNCHANGED <<src, input, JIT, pc, results, toks>>

\* HandleDefinition after FnIR = FnAST->codegen().
DefinitionLowered(FnAST, FnIR) ==
    /\ results' = Append(results, Handled("def", FnAST, FnIR.v, FnIR.g))
    /\ IF FnIR.v # Null
       THEN /\ JIT' = Append(JIT, FnIR.g.TheModule)
            /\ Store([FnIR.g EXCEPT !.TheModule = <<>>])
       ELSE /\ JIT' = JIT
            /\ Store(FnIR.g)

\* HandleDefinition after FnAST = ParseDefinition().
DefinitionParsed(FnAST) ==
    IF FnAST.r # Null
    THEN DefinitionLowered(FnAST.r, FunctionAST_codegen(FnAST.g, FnAST.r))
    ELSE /\ results' = Append(results, Handled("def", Null, Null, SkipToken(FnAST.g)))
         /\ JIT' = JIT
         /\ Store(SkipToken(FnAST.g))

HandleDefinition ==
    /\ pc = "loop"
    /\ CurTok = tok_def
    /\ DefinitionParsed(ParseDone(ParseDefinition(Globals)))
    /\ UNCHANGED <<src, input, pc, toks>>

\* HandleExtern after FnIR = ProtoAST->codegen().
ExternLowered(ProtoAST, FnIR) ==
    /\ results' = Append(results, Handled("extern", ProtoAST, FnIR.v, FnIR.g))
    /\ Store([FnIR.g EXCEPT !.FunctionProtos = RecordProto(@, ProtoAST)])

\* HandleExtern after ProtoAST = ParseExtern().
ExternParsed(ProtoAST) ==
    IF ProtoAST.r # Null
    THEN ExternLowered(ProtoAST.r, PrototypeAST_codegen(ProtoAST.g, ProtoAST.r))
    ELSE /\ results' = Append(results, Handled("extern", Null, Null, SkipToken(ProtoAST.g)))
         /\ Store(SkipToken(ProtoAST.g))

HandleExtern ==
    /\ pc = "loop"
    /\ CurTok = tok_extern
    /\ ExternParsed(ParseDone(ParseExtern(Globals)))
    /\ UNCHANGED <<src, input, JIT, pc, toks>>

\* HandleTopLevelExpression after FnIR = FnAST->codegen().
TopLevelLowered(FnAST, FnIR) ==
    /\ results' = Append(results, Handled("expr", FnAST, FnIR.v, FnIR.g))
    /\ IF FnIR.v # Null
       THEN /\ Store([FnIR.g EXCEPT !.TheModule = <<>>])
            /\ \E out \in RunOutcomes(Append(JIT, FnIR.g.TheModule)) :
                  pc' = IF out = "returned" THEN "loop" ELSE "aborted"
       ELSE /\ Store(FnIR.g)
            /\ pc' = pc

\* HandleTopLevelExpression after FnAST = ParseTopLevelExpr().
TopLevelParsed(FnAST) ==
    IF FnAST.r # Null
    THEN TopLevelLowered(FnAST.r, FunctionAST_codegen(FnAST.g, FnAST.r))
    ELSE /\ results' = Append(results, Handled("expr", Null, Null, SkipToken(FnAST.g)))
         /\ Store(SkipToken(FnAST.g))
         /\ pc' = pc

HandleTopLevelExpression ==
    /\ pc = "loop"
    /\ CurTok \notin {tok_eof, Ch(";"), tok_def, tok_extern}
    /\ TopLevelParsed(ParseDone(ParseTopLevelExpr(Globals)))
    /\ UNCHANGED <<src, input, JIT, toks>>

(***************************************************************************)
(* The texts put on standard input.  Each family is described by a record  *)
(* src, and Render(src) is the text; a table of texts carries, beside each *)
(* text, the node the grammar of the language gives it.                    *)
(***************************************************************************)
Num(m) == NumberExprAST([m |-> m, e |-> 0])
Var(n) == VariableExprAST(S(<<n>>))

RECURSIVE Join(_, _)
Join(texts, sep) ==
    IF texts = <<>> THEN <<>>
    ELSE IF Len(texts) = 1 THEN texts[1]
    ELSE texts[1] \o sep \o Join(Tail(texts), sep)

SeqsUpTo(X, n) == UNION {[1..m -> X] : m \in 0..n}

\* Primary expressions.
Prims ==
    << [text |-> S(<<"1">>), ast |-> Num(1)],
       [text |-> S(<<"a">>), ast |-> Var("a")],
       [text |-> S(<<"f","(","2",")">>), ast |-> CallExprAST(S(<<"f">>), <<Num(2)>>)],
       [text |-> S(<<"(","b","+","1",")">>), ast |-> BinaryExprAST(Ch("+"), Var("b"), Num(1))] >>

Ops == {Ch("<"), Ch("+"), Ch("-"), Ch("*")}

\* The binding strength the language gives each operator.
Strength(op) == IF op = Ch("<") THEN 1 ELSE IF op = Ch("*") THEN 3 ELSE 2

\* "chain": operands joined by binary operators, p1 o1 p2 ... on pn.
ChainSrcs ==
    UNION {{[fam |-> "chain", operands |-> o, ops |-> p] :
               o \in [1..n -> 1..Len(Prims)], p \in [1..(n - 1) -> Ops]} :
           n \in 1..MaxOperands}

RECURSIVE RenderChain(_, _)
RenderChain(operands, ops) ==
    IF Len(operands) = 1 THEN Prims[operands[1]].text
    ELSE Prims[operands[1]].text \o <<ops[1]>> \o RenderChain(Tail(operands), Tail(ops))

\* Argument expressions of a call.
ArgExprs ==
    << [text |-> S(<<"1">>), ast |-> Num(1)],
       [text |-> S(<<"2","+","3">>), ast |-> BinaryExprAST(Ch("+"), Num(2), Num(3))],
       [text |-> S(<<"a">>), ast |-> Var("a")],
       [text |-> S(<<"g","(",")">>), ast |-> CallExprAST(S(<<"g">>), <<>>)] >>

Callees == {S(<<"f">>), S(<<"f","o","o">>)}

\* "call": callee ( arg , ... , arg ), and the callee alone.
CallSrcs ==
    {[fam |-> "call", callee |-> c, args |-> a, spaced |-> sp, paren |-> TRUE] :
        c \in Callees, a \in SeqsUpTo(1..Len(ArgExprs), MaxArgs), sp \in BOOLEAN}
    \cup {[fam |-> "call", callee |-> c, args |-> <<>>, spaced |-> FALSE, paren |-> FALSE] :
            c \in Callees}

RenderCall(s) ==
    IF ~s.paren THEN s.callee
    ELSE s.callee \o S(<<"(">>)
         \o Join([i \in DOMAIN s.args |-> ArgExprs[s.args[i]].text],
                 IF s.spaced THEN S(<<",", " ">>) ELSE S(<<",">>))
         \o S(<<")">>)

\* Bodies of a definition.
Bodies ==
    << [text |-> S(<<"a","+","b">>), ast |-> BinaryExprAST(Ch("+"), Var("a"), Var("b"))],
       [text |-> S(<<"1">>), ast |-> Num(1)],
       [text |-> S(<<"a">>), ast |-> Var("a")] >>

FnNames == {S(<<"a","d","d">>), S(<<"f">>)}
ParamNames == {S(<<"a">>), S(<<"b">>)}

\* "def": def name ( param ... param ) body
DefSrcs ==
    {[fam |-> "def", name |-> n, params |-> ps, body |-> b] :
        n \in FnNames, ps \in SeqsUpTo(ParamNames, MaxParams), b \in 1..Len(Bodies)}

RenderDef(s) ==
    S(<<"d","e","f"," ">>) \o s.name \o S(<<"(">>) \o Join(s.params, S(<<" ">>))
    \o S(<<")"," ">>) \o Bodies[s.body].text

\* Top-level forms that parse, with their nodes.
WellFormed ==
    << [text |-> S(<<"4","2">>), kind |-> "expr",
        ast |-> FunctionAST(PrototypeAST(AnonExpr, <<>>), Num(42))],
       [text |-> S(<<"a","-","b">>), kind |-> "expr",
        ast |-> FunctionAST(PrototypeAST(AnonExpr, <<>>),
                            BinaryExprAST(Ch("-"), Var("a"), Var("b")))],
       [text |-> S(<<"d","e","f"," ","f","(","a",")"," ","a">>), kind |-> "def",
        ast |-> FunctionAST(PrototypeAST(S(<<"f">>), <<S(<<"a">>)>>), Var("a"))],
       [text |-> S(<<"e","x","t","e","r","n"," ","g","(","a"," ","b",")">>), kind |-> "extern",
        ast |-> PrototypeAST(S(<<"g">>), <<S(<<"a">>), S(<<"b">>)>>)] >>

\* Top-level forms that do not parse.
Malformed ==
    << S(<<"f","o","o","(","1",",">>),
       S(<<"f","o","o","(","1">>),
       S(<<"(","1"," ","2">>),
       S(<<"1","+">>),
       S(<<")">>),
       S(<<"d","e","f"," ","f","(","a">>),
       S(<<"d","e","f"," ","(">>),
       S(<<"e","x","t","e","r","n"," ","g","(","a",",","b",")">>),
       S(<<"e","x","t","e","r","n"," ","1">>),
       S(<<"d","e","f"," ","g","(",")">>) >>

\* "recover": a malformed form, a separator, a well-formed form.
RecoverSrcs ==
    {[fam |-> "recover", bad |-> b, sep |-> sp, good |-> w] :
        b \in 1..Len(Malformed), sp \in {S(<<";">>), S(<<" ">>), S(<<"\n">>)},
        w \in 1..Len(WellFormed)}

RenderRecover(s) == Malformed[s.bad] \o s.sep \o WellFormed[s.good].text

\* Forms of a session.
Items ==
    << S(<<"e","x","t","e","r","n"," ","f","(","a",")">>),
       S(<<"e","x","t","e","r","n"," ","f","(","a"," ","b",")">>),
       S(<<"d","e","f"," ","f","(","b",")"," ","b">>),
       S(<<"d","e","f"," ","g","(","a",")"," ","f","(","a",")">>),
       S(<<"d","e","f"," ","f","(","a",")"," ","c">>),
       S(<<"f","(","1",")">>),
       S(<<"f","(","1",",","2",")">>),
       S(<<"1">>),
       S(<<"f","o","o","(","1",",">>) >>

\* "prog": forms separated by ';'.
ProgSrcs ==
    {[fam |-> "prog", items |-> it] : it \in SeqsUpTo(1..Len(Items), MaxForms)}

RenderProg(s) == Join([i \in DOMAIN s.items |-> Items[s.items[i]]], S(<<";">>))

\* "paren": ( e with what follows it: the closing parenthesis or something
\* else, then nothing or *a.
ParenSrcs ==
    UNION {{[fam |-> "paren", operands |-> o, ops |-> p, close |-> c, tail |-> tl] :
               o \in [1..n -> 1..Len(Prims)], p \in [1..(n - 1) -> Ops],
               c \in {S(<<")">>), <<>>, S(<<" ","2">>), S(<<";">>)},
               tl \in {<<>>, S(<<"*","a">>)}} :
           n \in 1..2}

RenderParen(s) == S(<<"(">>) \o RenderChain(s.operands, s.ops) \o s.close \o s.tail

\* The tokens a prototype is tried on.
ProtoToks ==
    {S(<<"f">>), S(<<"a">>), S(<<"(">>), S(<<")">>), S(<<",">>), S(<<"d","e","f">>)}

\* "proto": extern and a sequence of such tokens.
ProtoSrcs == {[fam |-> "proto", toks |-> ts] : ts \in SeqsUpTo(ProtoToks, MaxProtoToks)}

RenderProto(s) ==
    S(<<"e","x","t","e","r","n">>)
    \o Join([i \in 1..(Len(s.toks) + 1) |-> IF i = 1 THEN <<>> ELSE s.toks[i - 1]], S(<<" ">>))

\* The tokens an argument list is tried on.
ArgToks == {S(<<"1">>), S(<<"a">>), S(<<",">>), S(<<")">>), S(<<";">>)}

\* "args": foo( and a sequence of such tokens.
ArgsSrcs == {[fam |-> "args", toks |-> ts] : ts \in SeqsUpTo(ArgToks, MaxArgToks)}

RenderArgs(s) == S(<<"f","o","o","(">>) \o Join(s.toks, S(<<" ">>))

\* Forms of a session whose expressions are run.
RunItems ==
    << S(<<"d","e","f"," ","f","(","a",")"," ","f","(","a",")">>),
       S(<<"f","(","1",")">>),
       S(<<"e","x","t","e","r","n"," ","g","(","a",")">>),
       S(<<"g","(","1",")">>),
       S(<<"1","+","2">>),
       S(<<"f","o","o","(","1",",">>),
       S(<<"d","e","f"," ","a","d","d","(","a",")"," ","a">>),
       S(<<"a","d","d","(","2",")">>) >>

\* "run": such forms separated by ';'.
RunSrcs ==
    {[fam |-> "run", items |-> it] : it \in SeqsUpTo(1..Len(RunItems), MaxRunForms)}

RenderRun(s) == Join([i \in DOMAIN s.items |-> RunItems[s.items[i]]], S(<<";">>))

\* Well-formed forms that can follow one another without a ';'.
PairForms ==
    << S(<<"4","2">>),
       S(<<"3">>),
       S(<<"a","-","b">>),
       S(<<"b">>),
       S(<<"d","e","f"," ","f","(","a",")"," ","a">>),
       S(<<"e","x","t","e","r","n"," ","g","(","a"," ","b",")">>) >>

\* "pair": two such forms with a space between them.
PairSrcs ==
    {[fam |-> "pair", first |-> x, second |-> y] :
        x \in 1..Len(PairForms), y \in 1..Len(PairForms)}

RenderPair(s) == PairForms[s.first] \o S(<<" ">>) \o PairForms[s.second]

Render(s) ==
    IF s.fam = "chain" THEN RenderChain(s.operands, s.ops)
    ELSE IF s.fam = "pair" THEN RenderPair(s)
    ELSE IF s.fam = "run" THEN RenderRun(s)
    ELSE IF s.fam = "args" THEN RenderArgs(s)
    ELSE IF s.fam = "proto" THEN RenderProto(s)
    ELSE IF s.fam = "paren" THEN RenderParen(s)
    ELSE IF s.fam = "call" THEN RenderCall(s)
    ELSE IF s.fam = "def" THEN RenderDef(s)
    ELSE IF s.fam = "recover" THEN RenderRecover(s)
    ELSE RenderProg(s)

Srcs ==
    ChainSrcs \cup CallSrcs \cup DefSrcs \cup RecoverSrcs \cup ProgSrcs \cup ParenSrcs
    \cup ProtoSrcs \cup ArgsSrcs \cup PairSrcs

(***************************************************************************)
(* The state before main runs: the statics as C++ initialises them.        *)
(***************************************************************************)
InitStatics ==
    /\ nread = 0
    /\ LastChar = Ch(" ")
    /\ IdentifierStr = <<>>
    /\ NumVal = [m |-> 0, e |-> 0]
    /\ CurTok = 0
    /\ BinopPrecedence = <<>>
    /\ log = <<>>
    /\ TheModule = Null
    /\ FunctionProtos = <<>>
    /\ NamedValues = <<>>
    /\ JIT = <<>>
    /\ results = <<>>
    /\ toks = <<>>

Init ==
    /\ src \in Srcs
    /\ input = Render(src)
    /\ pc = "start"
    /\ InitStatics

Next ==
    \/ Main
    \/ MainLoopEof
    \/ MainLoopSemicolon
    \/ HandleDefinition
    \/ HandleExtern
    \/ HandleTopLevelExpression

Spec == Init /\ [][Next]_vars

\* The program on the texts of the "recover" family alone.
InitRecover ==
    /\ src \in RecoverSrcs
    /\ input = Render(src)
    /\ pc = "start"
    /\ InitStatics

SpecRecover == InitRecover /\ [][Next]_vars

\* The program on the texts of the "run" family.
InitRun ==
    /\ src \in RunSrcs
    /\ input = Render(src)
    /\ pc = "start"
    /\ InitStatics

SpecRun == InitRun /\ [][Next]_vars

(***************************************************************************)
(* The lexer on its own: gettok called again and again on a text.          *)
(***************************************************************************)
LexAlphabet == {Ch("d"), Ch("1"), Ch(" "), Ch("#"), Ch("\n"), Ch("\r"), Ch("+")}

\* "lex": every text over the alphabet.
LexSrcs == {[fam |-> "lex", text |-> x] : x \in SeqsUpTo(LexAlphabet, MaxLexLen)}

\* Words that are, or look like, a keyword.
Words ==
    { S(<<"d","e","f">>), S(<<"e","x","t","e","r","n">>), S(<<"d","e","f","i","n","e">>),
      S(<<"d","e","f","1">>), S(<<"e","x","t","e","r","n","s">>), S(<<"e","x","t","e","r">>),
      S(<<"d","e">>), S(<<"x","d","e","f">>), S(<<"a","1","b">>), S(<<"f">>) }

\* "word": a word between two pieces of text.
WordSrcs ==
    {[fam |-> "word", pre |-> a, word |-> w, post |-> b] :
        a \in {<<>>, S(<<" ">>), S(<<"1">>), S(<<"(">>), S(<<"#","d","\n">>)},
        w \in Words,
        b \in {<<>>, S(<<" ">>), S(<<"(">>), S(<<"#">>), S(<<"."," ","d">>)}}

\* Characters that are no space, letter, digit, '.' or '#'; 233 is a byte
\* above 127.
SymChars ==
    {Ch("<"), Ch("="), Ch("("), Ch(")"), Ch(";"), Ch(","), Ch("*"), Ch("/"), 233}

\* "sym": one or two such characters between two pieces of text.
SymSrcs ==
    {[fam |-> "sym", pre |-> a, syms |-> x, post |-> b] :
        a \in {<<>>, S(<<"d">>), S(<<"1">>)},
        x \in [1..1 -> SymChars] \cup [1..2 -> SymChars],
        b \in {<<>>, S(<<"d">>), S(<<" ">>)}}

RenderLex(s) ==
    IF s.fam = "lex" THEN s.text
    ELSE IF s.fam = "word" THEN s.pre \o s.word \o s.post
    ELSE s.pre \o s.syms \o s.post

InitLex ==
    /\ src \in LexSrcs \cup WordSrcs \cup SymSrcs
    /\ input = RenderLex(src)
    /\ pc = "lex"
    /\ InitStatics

\* What the history keeps of a call of gettok: where the lexer stood before
\* (the number of characters read) and after, the token and the payloads.
Lexed(from, r) ==
    [from |-> from, to |-> r.g.nread, tok |-> r.tok,
     IdentifierStr |-> r.g.IdentifierStr, NumVal |-> r.g.NumVal]

EofCalls == Cardinality({i \in DOMAIN toks : toks[i].tok = tok_eof})

\* One call of gettok.
GetTok ==
    /\ pc = "lex"
    /\ EofCalls < MaxEofCalls
    /\ Store(gettok(Globals).g)
    /\ toks' = Append(toks, Lexed(nread, gettok(Globals)))
    /\ UNCHANGED <<src, input, JIT, pc, results>>

SpecLex == InitLex /\ [][GetTok]_vars

(***************************************************************************)
(* Properties of the parser, read off the history of top-level forms.      *)
(***************************************************************************)
Last(s) == s[Len(s)]

Anon(E) == FunctionAST(PrototypeAST(AnonExpr, <<>>), E)

Operand(i) == Prims[src.operands[i]].ast

\* C1: an expression x op1 y op2 z in which op2 binds strictly tighter than
\* op1 parses to BinaryOp(op1, x, BinaryOp(op2, y, z)).
C1_TighterOperatorNestsRight ==
    (/\ src.fam = "chain"
     /\ Len(src.operands) = 3
     /\ Strength(src.ops[2]) > Strength(src.ops[1])
     /\ results # <<>>)
    => results[1].ast =
         Anon(BinaryExprAST(src.ops[1], Operand(1),
                            BinaryExprAST(src.ops[2], Operand(2), Operand(3))))

C1_Witness ==
    /\ src.fam = "chain"
    /\ src.ops = <<Ch("+"), Ch("*")>>
    /\ src.operands = <<1, 2, 3>>
    /\ results # <<>>
    /\ results[1].ast # Null
    /\ results[1].ast.Body.k = "Binary"
    /\ results[1].ast.Body.Op = Ch("+")
    /\ results[1].ast.Body.RHS.k = "Binary"

\* ((p1 o1 p2) o2 p3) ... on pn
RECURSIVE LeftFold(_, _)
LeftFold(operands, ops) ==
    IF Len(operands) = 1 THEN Prims[operands[1]].ast
    ELSE BinaryExprAST(Last(ops),
                       LeftFold(SubSeq(operands, 1, Len(operands) - 1),
                                SubSeq(ops, 1, Len(ops) - 1)),
                       Prims[Last(operands)].ast)

\* C2: a chain of primaries joined by operators of equal precedence parses to
\* the left-associative tree ((p1 o1 p2) o2 p3) ... on pn.
C2_EqualPrecedenceLeftAssociative ==
    (/\ src.fam = "chain"
     /\ \A i, j \in DOMAIN src.ops : Strength(src.ops[i]) = Strength(src.ops[j])
     /\ results # <<>>)
    => results[1].ast = Anon(LeftFold(src.operands, src.ops))

C2_Witness ==
    /\ src.fam = "chain"
    /\ src.ops = <<Ch("-"), Ch("+")>>
    /\ results # <<>>
    /\ results[1].ast # Null
    /\ results[1].ast.Body.k = "Binary"
    /\ results[1].ast.Body.Op = Ch("+")
    /\ results[1].ast.Body.LHS.k = "Binary"
    /\ results[1].ast.Body.LHS.Op = Ch("-")

\* C3: identifier ( expression , ... ) parses to a Call of the identifier with
\* the parsed arguments in source order, zero arguments for (); an identifier
\* not followed by ( parses to a VariableRef.
C3_CallOrVariableRef ==
    (src.fam = "call" /\ results # <<>>)
    => results[1].ast =
         Anon(IF src.paren
              THEN CallExprAST(src.callee,
                               [i \in DOMAIN src.args |-> ArgExprs[src.args[i]].ast])
              ELSE VariableExprAST(src.callee))

C3_Witness ==
    /\ src.fam = "call"
    /\ src.paren
    /\ src.spaced
    /\ src.callee = S(<<"f","o","o">>)
    /\ src.args = <<1, 2>>
    /\ results # <<>>
    /\ results[1].ast # Null
    /\ results[1].ast.Body.k = "Call"
    /\ Len(results[1].ast.Body.Args) = 2

\* C4: def name ( identifiers ) expression parses to
\* FunctionDef(Prototype(name, params in source order), body).
C4_DefinitionParses ==
    (src.fam = "def" /\ results # <<>>)
    => /\ results[1].kind = "def"
       /\ results[1].ast =
            FunctionAST(PrototypeAST(src.name, src.params), Bodies[src.body].ast)

C4_Witness ==
    /\ src.fam = "def"
    /\ src.name = S(<<"a","d","d">>)
    /\ src.params = <<S(<<"a">>), S(<<"b">>)>>
    /\ src.body = 1
    /\ results # <<>>
    /\ results[1].ast # Null
    /\ results[1].ast.Proto.Args = <<S(<<"a">>), S(<<"b">>)>>
    /\ results[1].ast.Body.k = "Binary"

\* C5: a bare expression parsed at top level is wrapped in a FunctionDef
\* whose Prototype is named __anon_expr and has no parameters, and whose body
\* is the expression parsed.
C5_TopLevelExpressionWrapped ==
    /\ \A i \in DOMAIN results :
          (results[i].kind = "expr" /\ results[i].ast # Null)
          => /\ results[i].ast.k = "Function"
             /\ results[i].ast.Proto = PrototypeAST(AnonExpr, <<>>)
             /\ results[i].ast.Body.k \in {"Number", "Variable", "Binary", "Call"}
    /\ (src.fam = "chain" /\ Len(src.operands) = 1 /\ results # <<>>)
       => results[1].ast = FunctionAST(PrototypeAST(AnonExpr, <<>>), Operand(1))
    /\ (/\ src.fam = "recover" /\ src.sep = S(<<";">>) /\ src.good = 1
        /\ pc = "done")
       => Last(results).ast =
            FunctionAST(PrototypeAST(AnonExpr, <<>>), NumberExprAST([m |-> 42, e |-> 0]))

C5_Witness ==
    /\ src.fam = "recover"
    /\ src.sep = S(<<";">>)
    /\ src.good = 1
    /\ pc = "done"
    /\ Last(results).kind = "expr"
    /\ Last(results).ast # Null
    /\ Last(results).ast.Proto.Name = AnonExpr
    /\ Last(results).ast.Body.k = "Number"

\* C6: after a malformed top-level form, a well-formed form that starts at a
\* recovery boundary (';', def, extern) is parsed to the node it has on its
\* own, and the malformed form is a parse failure.
C6_NextFormParsedAtBoundary ==
    (/\ src.fam = "recover"
     /\ (src.sep = S(<<";">>) \/ WellFormed[src.good].kind \in {"def", "extern"})
     /\ pc \in {"done", "aborted"})
    => /\ results[1].ast = Null
       /\ Last(results).kind = WellFormed[src.good].kind
       /\ Last(results).ast = WellFormed[src.good].ast

\* The same with ';' between the two forms.
C6_NextFormParsedAfterSemicolon ==
    (src.fam = "recover" /\ src.sep = S(<<";">>) /\ pc \in {"done", "aborted"})
    => /\ results[1].ast = Null
       /\ Last(results).kind = WellFormed[src.good].kind
       /\ Last(results).ast = WellFormed[src.good].ast

Range(s) == {s[i] : i \in DOMAIN s}

\* The prototype of a form that was parsed.
ProtoOf(r) == IF r.kind = "extern" THEN r.ast ELSE r.ast.Proto

\* The form is the top-level expression n(c1, ..., cm) with numbers c1 ... cm.
IsCallOf(r, n, m) ==
    /\ r.kind = "expr"
    /\ r.ast # Null
    /\ r.ast.Body.k = "Call"
    /\ r.ast.Body.Callee = n
    /\ Len(r.ast.Body.Args) = m
    /\ \A a \in DOMAIN r.ast.Body.Args : r.ast.Body.Args[a].k = "Number"

\* C7: once extern f(p1 ... pn) was handled, a Call of f in a later top-level
\* form is not refused with "Unknown function referenced", whatever forms
\* were handled in between; a call f(c1, ..., cn) on numbers is lowered when
\* every prototype of f seen so far has n parameters.
C7_ExternResolvesLaterCalls ==
    \A i, j \in DOMAIN results :
        (i < j /\ results[i].kind = "extern" /\ results[i].ast # Null)
        => /\ results[i].ast.Name \notin Range(results[j].unknown)
           /\ (/\ IsCallOf(results[j], results[i].ast.Name, Len(results[i].ast.Args))
               /\ \A k \in 1..(j - 1) :
                     (results[k].ast # Null
                        /\ ProtoOf(results[k]).Name = results[i].ast.Name)
                     => Len(ProtoOf(results[k]).Args) = Len(results[i].ast.Args))
              => results[j].ir # Null

C7_Witness ==
    /\ Len(results) = 3
    /\ results[1].kind = "extern"
    /\ results[1].ast # Null
    /\ results[2].ir # Null
    /\ results[3].kind = "expr"
    /\ results[3].ast # Null
    /\ results[3].ast.Body.k = "Call"
    /\ results[3].ast.Body.Callee = results[1].ast.Name
    /\ Len(results[3].ast.Body.Args) = Len(results[1].ast.Args)
    /\ results[3].ir # Null

Parsed == {i \in DOMAIN results : results[i].ast # Null}

LastNamed(n) ==
    CHOOSE i \in Parsed :
        /\ ProtoOf(results[i]).Name = n
        /\ \A j \in Parsed : ProtoOf(results[j]).Name = n => j <= i

\* C8: for every name with an extern or a definition that was parsed and
\* handed to the backend, the registry maps the name to the Prototype of the
\* most recent such form.
C8_RegistryLastSeenWins ==
    \A i \in Parsed :
        /\ ProtoOf(results[i]).Name \in DOMAIN FunctionProtos
        /\ FunctionProtos[ProtoOf(results[i]).Name]
             = ProtoOf(results[LastNamed(ProtoOf(results[i]).Name)])

C8_Witness ==
    /\ Len(results) = 3
    /\ results[1].kind = "extern"
    /\ results[1].ast # Null
    /\ results[2].kind = "def"
    /\ results[2].ast # Null
    /\ results[2].ast.Proto.Name = results[1].ast.Name
    /\ results[2].ast.Proto.Args # results[1].ast.Args
    /\ results[3].kind = "expr"
    /\ FunctionProtos[results[1].ast.Name] = results[2].ast.Proto

(***************************************************************************)
(* Properties of the lexer, read off the history of the calls of gettok.   *)
(***************************************************************************)

\* The character at a position of the text: the ' ' LastChar starts as, the
\* characters of standard input, then EOF.
At(i) == IF i = 0 THEN Ch(" ") ELSE IF i <= Len(input) THEN input[i] ELSE EOF

\* Position i lies in a comment that starts at or after position c.
InComment(c, i) ==
    /\ i <= Len(input)
    /\ \E j \in c..i :
          /\ At(j) = Ch("#")
          /\ \A k \in (j + 1)..i : At(k) # Ch("\n") /\ At(k) # Ch("\r")

\* The first position at or after c that is neither white space nor comment.
TokStart(c) ==
    CHOOSE s \in c..(Len(input) + 1) :
        /\ ~(isspace(At(s)) \/ InComment(c, s))
        /\ \A j \in c..(s - 1) : isspace(At(j)) \/ InComment(c, j)

\* The maximal run of alphanumeric characters from position s.
RunFrom(s) ==
    LET e == CHOOSE e \in s..Len(input) :
                 /\ \A j \in s..e : isalnum(At(j))
                 /\ ~isalnum(At(e + 1))
    IN SubSeq(input, s, e)

\* C9: an identifier is the maximal run of alphanumeric characters that starts
\* with an alphabetic character; the token is keyword-def / keyword-extern
\* only when the run is exactly def / extern, and an identifier token with
\* the run in IdentifierStr otherwise.
C9_IdentifierMaximalRun ==
    \A n \in DOMAIN toks :
        IF isalpha(At(TokStart(toks[n].from)))
        THEN /\ toks[n].IdentifierStr = RunFrom(TokStart(toks[n].from))
             /\ toks[n].to = TokStart(toks[n].from) + Len(toks[n].IdentifierStr)
             /\ toks[n].tok = tok_def <=> toks[n].IdentifierStr = S(<<"d","e","f">>)
             /\ toks[n].tok = tok_extern
                  <=> toks[n].IdentifierStr = S(<<"e","x","t","e","r","n">>)
             /\ toks[n].tok \in {tok_def, tok_extern, tok_identifier}
        ELSE toks[n].tok \notin {tok_def, tok_extern, tok_identifier}

C9_Witness ==
    /\ src.fam = "word"
    /\ src.word = S(<<"d","e","f","i","n","e">>)
    /\ src.pre = S(<<"1">>)
    /\ src.post = S(<<"(">>)
    /\ Len(toks) = 2
    /\ toks[2].tok = tok_identifier
    /\ toks[2].IdentifierStr = src.word

\* The text without its comments.
RECURSIVE StripComments(_)
StripComments(n) ==
    IF n = 0 THEN <<>>
    ELSE IF InComment(1, n) THEN StripComments(n - 1)
    ELSE Append(StripComments(n - 1), input[n])

\* A token with the payload that belongs to it.
Token(r) ==
    [tok |-> r.tok,
     IdentifierStr |-> IF r.tok = tok_identifier THEN r.IdentifierStr ELSE <<>>,
     NumVal |-> IF r.tok = tok_number THEN r.NumVal ELSE [m |-> 0, e |-> 0]]

\* The tokens of a text up to and with the first tok_eof.
RECURSIVE TokensFrom(_)
TokensFrom(g) ==
    IF gettok(g).tok = tok_eof
    THEN <<Token(Lexed(g.nread, gettok(g)))>>
    ELSE <<Token(Lexed(g.nread, gettok(g)))>> \o TokensFrom(gettok(g).g)

TokensOf(text) ==
    TokensFrom([input |-> text, nread |-> 0, LastChar |-> Ch(" "),
                IdentifierStr |-> <<>>, NumVal |-> [m |-> 0, e |-> 0]])

\* C10: the tokens repeated calls of gettok return are those of the text with
\* every comment (from '#' up to, not including, the next '\n', '\r' or the
\* end of input) deleted; a comment that runs to the end of input is followed
\* by tok_eof.
C10_CommentsProduceNoToken ==
    /\ EofCalls = 1 /\ Last(toks).tok = tok_eof
       => [n \in DOMAIN toks |-> Token(toks[n])] = TokensOf(StripComments(Len(input)))
    /\ \A n \in DOMAIN toks :
          TokStart(toks[n].from) = Len(input) + 1 => toks[n].tok = tok_eof

C10_Witness ==
    /\ src.fam = "lex"
    /\ src.text = S(<<"1","#","d","\r">>) \/ src.text = S(<<"#","1","\n","d">>)
                  \/ src.text = S(<<"d"," ","#","1">>)
    /\ EofCalls = 1
    /\ Last(toks).tok = tok_eof
    /\ Len(toks) = 2

\* C11: a character that is no white space, letter, digit, '.', '#' or end of
\* input is returned as the token of its own code and exactly that character
\* is consumed; only identifiers, keywords and numbers span two or more
\* characters; every call returns a token.
C11_SingleCharacterTokens ==
    \A n \in DOMAIN toks :
        /\ (/\ ~isalnum(At(TokStart(toks[n].from)))
            /\ At(TokStart(toks[n].from)) # Ch(".")
            /\ At(TokStart(toks[n].from)) # EOF)
           => /\ toks[n].tok = At(TokStart(toks[n].from))
              /\ toks[n].to = TokStart(toks[n].from) + 1
        /\ toks[n].tok \notin {tok_identifier, tok_def, tok_extern, tok_number}
           => toks[n].to <= TokStart(toks[n].from) + 1
        /\ toks[n].tok \in tok_number..255

C11_Witness ==
    /\ src.fam = "sym"
    /\ src.pre = <<>>
    /\ src.syms = <<Ch("<"), Ch("=")>>
    /\ Len(toks) >= 2
    /\ toks[1].tok = Ch("<")
    /\ toks[2].tok = Ch("=")
    /\ toks[2].to = toks[1].to + 1

\* C12: a call of gettok with LastChar at the end of input returns tok_eof
\* and reads no character; after a tok_eof every later call returns tok_eof
\* and standard input is not read again.
C12_EndOfInputSticks ==
    \A n \in DOMAIN toks :
        /\ toks[n].from = Len(input) + 1
           => toks[n].tok = tok_eof /\ toks[n].to = toks[n].from
        /\ \A m \in 1..(n - 1) :
              toks[m].tok = tok_eof
              => toks[n].tok = tok_eof /\ toks[n].to = toks[m].to

C12_Witness ==
    /\ input # <<>>
    /\ Len(toks) >= 3
    /\ toks[Len(toks) - 1].tok = tok_eof
    /\ Last(toks).tok = tok_eof
    /\ Last(toks).from = Len(input) + 1
    /\ Last(toks).to = Last(toks).from

(***************************************************************************)
(* Properties of the precedence table.                                     *)
(***************************************************************************)

\* The binding strengths main installs.
Installed == (Ch("<") :> 10) @@ (Ch("+") :> 20) @@ (Ch("-") :> 20) @@ (Ch("*") :> 40)

\* Every value CurTok can hold: the character codes and the tokens of the enum.
AllToks == tok_number..255

\* C13: GetTokPrecedence returns 10 for '<', 20 for '+' and '-', 40 for '*'
\* and -1 for every other current token.
C13_PrecedenceValues ==
    pc # "start"
    => \A t \in AllToks :
          GetTokPrecedence([Globals EXCEPT !.CurTok = t]).prec
            = IF t \in DOMAIN Installed THEN Installed[t] ELSE -1

C13_Witness ==
    /\ pc = "loop"
    /\ results # <<>>
    /\ Ch(")") \in DOMAIN BinopPrecedence
    /\ GetTokPrecedence([Globals EXCEPT !.CurTok = Ch(")")]).prec = -1
    /\ GetTokPrecedence([Globals EXCEPT !.CurTok = Ch("*")]).prec = 40
    /\ GetTokPrecedence([Globals EXCEPT !.CurTok = 233]).prec = -1
    /\ GetTokPrecedence([Globals EXCEPT !.CurTok = tok_identifier]).prec = -1

\* C14: once main has installed the four entries, no operation of the parser
\* adds, removes or changes an entry of BinopPrecedence.
C14_TableFixedAfterStartup == pc # "start" => BinopPrecedence = Installed

\* The four entries keep their values and every other entry is 0.
C14_InstalledEntriesKept ==
    pc # "start"
    => /\ DOMAIN Installed \subseteq DOMAIN BinopPrecedence
       /\ \A t \in DOMAIN BinopPrecedence :
             BinopPrecedence[t] = IF t \in DOMAIN Installed THEN Installed[t] ELSE 0

(***************************************************************************)
(* Properties of the parser's forms and failures.                          *)
(***************************************************************************)

\* The node ParseExpression returns for a text that is read from its start.
Alone(text) ==
    ParseExpression(getNextToken(
        [input |-> text, nread |-> 0, LastChar |-> Ch(" "), IdentifierStr |-> <<>>,
         NumVal |-> [m |-> 0, e |-> 0], CurTok |-> 0, BinopPrecedence |-> Installed,
         log |-> <<>>])).r

\* C15: ( e ) parses to the node of e, parentheses only group; when the token
\* behind e is not ')' the parse fails with the diagnostic "Expected )".
C15_ParenthesesCreateNoNode ==
    (src.fam = "paren" /\ results # <<>>)
    => IF src.close = S(<<")">>)
       THEN results[1].ast =
              Anon(IF src.tail = <<>>
                   THEN Alone(RenderChain(src.operands, src.ops))
                   ELSE BinaryExprAST(Ch("*"), Alone(RenderChain(src.operands, src.ops)),
                                      Var("a")))
       ELSE /\ results[1].ast = Null
            /\ log[1] = "Expected )"

C15_Witness ==
    /\ src.fam = "paren"
    /\ src.operands = <<2, 1>>
    /\ src.ops = <<Ch("+")>>
    /\ src.close = S(<<")">>)
    /\ src.tail = S(<<"*","a">>)
    /\ results # <<>>
    /\ results[1].ast =
         Anon(BinaryExprAST(Ch("*"), BinaryExprAST(Ch("+"), Var("a"), Num(1)), Var("a")))

\* The token of a text of ProtoToks.
TokOf(x) ==
    IF x = S(<<"d","e","f">>) THEN tok_def
    ELSE IF x \in {S(<<"f">>), S(<<"a">>)} THEN tok_identifier
    ELSE x[1]

\* The number of identifiers in a row from position i of a token sequence.
RECURSIVE IdentRun(_, _)
IdentRun(ts, i) ==
    IF i <= Len(ts) /\ TokOf(ts[i]) = tok_identifier THEN 1 + IdentRun(ts, i + 1) ELSE 0

\* What the grammar identifier ( identifier* ) makes of a token sequence: the
\* prototype, or the diagnostic, and the token behind the parameter names.
ProtoOutcome(ts) ==
    IF Len(ts) < 1 \/ TokOf(ts[1]) # tok_identifier
    THEN [ok |-> FALSE, diag |-> "Expected function name in prototype"]
    ELSE IF Len(ts) < 2 \/ ts[2] # S(<<"(">>)
    THEN [ok |-> FALSE, diag |-> "Expected '(' in prototype"]
    ELSE IF Len(ts) < 3 + IdentRun(ts, 3)
    THEN [ok |-> FALSE, diag |-> "Expected ')' in prototype", stop |-> tok_eof]
    ELSE IF ts[3 + IdentRun(ts, 3)] # S(<<")">>)
    THEN [ok |-> FALSE, diag |-> "Expected ')' in prototype",
          stop |-> TokOf(ts[3 + IdentRun(ts, 3)])]
    ELSE [ok |-> TRUE,
          ast |-> PrototypeAST(ts[1], SubSeq(ts, 3, 2 + IdentRun(ts, 3)))]

\* C16: ParsePrototype succeeds exactly on identifier ( identifier* ): the
\* first token behind the '(' that is no identifier ends the parameter names,
\* is not consumed and must be ')'; every other sequence fails with the
\* diagnostic of the missing function name, the missing '(' or the missing ')'.
C16_PrototypeGrammar ==
    (src.fam = "proto" /\ results # <<>>)
    => /\ results[1].kind = "extern"
       /\ IF ProtoOutcome(src.toks).ok
          THEN /\ results[1].ast = ProtoOutcome(src.toks).ast
               /\ results[1].diags = 0
          ELSE /\ results[1].ast = Null
               /\ log[1] = ProtoOutcome(src.toks).diag
               /\ "stop" \in DOMAIN ProtoOutcome(src.toks)
                  => results[1].stop = ProtoOutcome(src.toks).stop

C16_Witness ==
    /\ src.fam = "proto"
    /\ src.toks = <<S(<<"f">>), S(<<"(">>), S(<<"a">>), S(<<",">>)>>
    /\ results # <<>>
    /\ results[1].ast = Null
    /\ results[1].stop = Ch(",")
    /\ log[1] = "Expected ')' in prototype"

\* The node of an argument that is a single token.
Atom(x) == IF x = S(<<"1">>) THEN Num(1) ELSE Var("a")

\* What the grammar expression (, expression)* ) makes of the tokens from
\* position i on, args being the arguments before it.
RECURSIVE ArgsOutcome(_, _, _)
ArgsOutcome(ts, i, args) ==
    IF i > Len(ts) \/ ts[i] \notin {S(<<"1">>), S(<<"a">>)}
    THEN [ok |-> FALSE, diag |-> "Unknown token when expecting an expression"]
    ELSE IF i + 1 <= Len(ts) /\ ts[i + 1] = S(<<")">>)
    THEN [ok |-> TRUE, args |-> Append(args, Atom(ts[i]))]
    ELSE IF i + 1 <= Len(ts) /\ ts[i + 1] = S(<<",">>)
    THEN ArgsOutcome(ts, i + 2, Append(args, Atom(ts[i])))
    ELSE [ok |-> FALSE, diag |-> "Expected ')' or ',' in argument list"]

CallOutcome(ts) ==
    IF ts # <<>> /\ ts[1] = S(<<")">>) THEN [ok |-> TRUE, args |-> <<>>]
    ELSE ArgsOutcome(ts, 1, <<>>)

\* C17: behind each argument of a call the current token must be ',' or ')',
\* any other token fails with "Expected ')' or ',' in argument list"; a ','
\* must be followed by an expression, so a trailing comma and a missing
\* closing parenthesis are failures and no Call node is produced.
C17_ArgumentListErrors ==
    (src.fam = "args" /\ results # <<>>)
    => IF CallOutcome(src.toks).ok
       THEN results[1].ast
              = Anon(CallExprAST(S(<<"f","o","o">>), CallOutcome(src.toks).args))
       ELSE /\ results[1].ast = Null
            /\ results[1].diags = 1
            /\ log[1] = CallOutcome(src.toks).diag

C17_Witness ==
    /\ src.fam = "args"
    /\ src.toks = <<S(<<"1">>), S(<<"a">>), S(<<")">>)>>
    /\ results # <<>>
    /\ results[1].ast = Null
    /\ results[1].stop = tok_identifier
    /\ log[1] = "Expected ')' or ',' in argument list"

\* C18: a parse of a definition, an extern or a top-level expression that
\* fails prints exactly one diagnostic, and one that succeeds prints none.
C18_OneDiagnosticPerFailure ==
    \A i \in DOMAIN results :
        results[i].diags = IF results[i].ast = Null THEN 1 ELSE 0

C18_Witness ==
    /\ src.fam = "recover"
    /\ src.bad = 1
    /\ src.sep = S(<<";">>)
    /\ Len(results) = 2
    /\ results[1].ast = Null
    /\ results[1].diags = 1
    /\ results[2].ast # Null
    /\ results[2].diags = 0

\* C19: a definition, extern or top-level expression whose parse fails yields
\* no node and nothing is lowered: the registry, the open module and the
\* named values are as they were before the form.
C19_FailedParseChangesNothing ==
    /\ \A i \in DOMAIN results :
          results[i].ast = Null => results[i].ir = Null /\ ~results[i].touched
    /\ (src.fam = "recover" /\ src.sep = S(<<";">>) /\ Len(results) = 1)
       => /\ results[1].ast = Null
          /\ FunctionProtos = <<>>
          /\ TheModule = <<>>
          /\ NamedValues = <<>>

C19_Witness ==
    /\ src.fam = "recover"
    /\ Malformed[src.bad] = S(<<"d","e","f"," ","g","(",")">>)
    /\ src.sep = S(<<";">>)
    /\ Len(results) = 1
    /\ results[1].kind = "def"
    /\ results[1].ast = Null
    /\ ~results[1].touched
    /\ FunctionProtos = <<>>

(***************************************************************************)
(* Properties of the driver after a parse.                                 *)
(***************************************************************************)

\* The maximal run of digits and '.' from position s.
NumRunFrom(s) ==
    LET e == CHOOSE e \in s..Len(input) :
                 /\ \A j \in s..e : isdigit(At(j)) \/ At(j) = Ch(".")
                 /\ ~(isdigit(At(e + 1)) \/ At(e + 1) = Ch("."))
    IN SubSeq(input, s, e)

\* The token that starts at position s, and the position behind it.
TokenAt(s) ==
    IF isalpha(At(s))
    THEN IF RunFrom(s) = S(<<"d","e","f">>) THEN tok_def
         ELSE IF RunFrom(s) = S(<<"e","x","t","e","r","n">>) THEN tok_extern
         ELSE tok_identifier
    ELSE IF isdigit(At(s)) \/ At(s) = Ch(".") THEN tok_number
    ELSE IF At(s) = EOF THEN tok_eof
    ELSE At(s)

TokenEnd(s) ==
    IF isalpha(At(s)) THEN s + Len(RunFrom(s))
    ELSE IF isdigit(At(s)) \/ At(s) = Ch(".") THEN s + Len(NumRunFrom(s))
    ELSE IF At(s) = EOF THEN s
    ELSE s + 1

\* The driver discards exactly the token a failed parse stopped at, and no
\* token after a parse that succeeded.
DiscardsOneToken(r) ==
    IF r.ast = Null
    THEN /\ r.resume = TokenAt(TokStart(r.stopAt))
         /\ r.resumeAt = TokenEnd(TokStart(r.stopAt))
    ELSE /\ r.resume = r.stop
         /\ r.resumeAt = r.stopAt

\* C20: after a failed top-level parse the driver discards exactly one token
\* (none after a successful parse), and the next form it attempts to parse
\* begins at a boundary token: ';', def, extern or end of input.
C20_ResumesAtBoundary ==
    \A i \in DOMAIN results :
        /\ DiscardsOneToken(results[i])
        /\ results[i].ast = Null
           => results[i].resume \in {Ch(";"), tok_def, tok_extern, tok_eof}

\* The first half alone: the driver discards exactly the token a failed parse
\* stopped at, none after a successful parse.
C20_DiscardsOneTokenOnFailure ==
    \A i \in DOMAIN results : DiscardsOneToken(results[i])

(***************************************************************************)
(* Termination of MainLoop.                                                *)
(***************************************************************************)

\* C21: for every finite input MainLoop eventually returns, and it returns
\* only when the current token is end of input: every iteration that does
\* not return consumes at least one token, and no parse or lowering error
\* ends the session.  A session that does not come back to MainLoop is
\* one in which MainLoop never returns, so the first part reads: no session
\* stops anywhere but at the return of MainLoop.
C21_MainLoopReturns == pc # "aborted"

\* MainLoop returns only at end of input.
C21_ReturnsOnlyAtEndOfInput == pc = "done" => CurTok = tok_eof

\* Every iteration that does not return consumes a token: it reads on in
\* standard input, or the token it leaves is the end of input that ends the
\* loop.
C21_IterationConsumes ==
    [][pc = "loop" /\ pc' = "loop"
         => nread' > nread \/ (CurTok # tok_eof /\ CurTok' = tok_eof)]_vars

\* No parse or lowering error ends the session: the session stops short of
\* end of input only inside the call FP() of a lowered expression.
C21_ErrorsAreNotFatal ==
    pc = "aborted" => /\ results # <<>>
                      /\ Last(results).kind = "expr"
                      /\ Last(results).ir # Null

(***************************************************************************)
(* The one token of lookahead.                                             *)
(***************************************************************************)

\* The identifiers and numbers of a node, in the order the grammar writes
\* them (the name of the anonymous function is not written).
RECURSIVE Payloads(_)
RECURSIVE PayloadsOfAll(_)
Payloads(n) ==
    IF n.k = "Number" THEN <<[num |-> n.Val]>>
    ELSE IF n.k = "Variable" THEN <<[id |-> n.Name]>>
    ELSE IF n.k = "Binary" THEN Payloads(n.LHS) \o Payloads(n.RHS)
    ELSE IF n.k = "Call" THEN <<[id |-> n.Callee]>> \o PayloadsOfAll(n.Args)
    ELSE IF n.k = "Prototype"
         THEN (IF n.Name = AnonExpr THEN <<>> ELSE <<[id |-> n.Name]>>)
              \o [i \in DOMAIN n.Args |-> [id |-> n.Args[i]]]
    ELSE Payloads(n.Proto) \o Payloads(n.Body)

PayloadsOfAll(ns) ==
    IF ns = <<>> THEN <<>> ELSE Payloads(Head(ns)) \o PayloadsOfAll(Tail(ns))

\* The identifiers and numbers written in standard input from position s up
\* to position e, in order.
RECURSIVE PayloadsIn(_, _)
PayloadsIn(s, e) ==
    IF TokStart(s) > e THEN <<>>
    ELSE (IF TokenAt(TokStart(s)) = tok_identifier THEN <<[id |-> RunFrom(TokStart(s))]>>
          ELSE IF TokenAt(TokStart(s)) = tok_number
               THEN <<[num |-> strtod(NumRunFrom(TokStart(s)))]>>
          ELSE <<>>)
         \o PayloadsIn(TokenEnd(TokStart(s)), e)

\* The parse of the form written from position b to position e succeeded
\* with one token of lookahead: the token it stopped at is the first one
\* behind position e, standard input was read to the end of that token and
\* no further, and the node carries the identifiers and numbers written
\* from b to e.
OneTokenAhead(r, b, e) ==
    /\ r.ast # Null
    /\ r.stop = TokenAt(TokStart(e + 1))
    /\ r.stopAt = TokenEnd(TokStart(e + 1))
    /\ Payloads(r.ast) = PayloadsIn(b, e)

\* The position of the last character of the first k forms of a "prog" text.
ItemEnd(k) == Len(RenderProg([items |-> SubSeq(src.items, 1, k)]))

\* The position of the last character of the prototype of a "proto" text
\* that is one: extern and 3 + n tokens, n the number of parameter names.
RECURSIVE ProtoEnd(_)
ProtoEnd(n) == IF n = 0 THEN 6 ELSE ProtoEnd(n - 1) + 1 + Len(src.toks[n])

\* The items of a "prog" text that are well-formed forms.
WellFormedItems == 1..8

\* C22: the parser keeps exactly one token of lookahead: when the parse of
\* an expression, a prototype, a definition, an extern or a top-level
\* expression returns successfully, CurTok is the first token after the
\* recognised form (the form's tokens and one more were fetched), and the
\* IdentifierStr and NumVal read by the parser are those of the token they
\* were read for.
C22_OneTokenOfLookahead ==
    /\ (src.fam \in {"chain", "call", "def"} /\ results # <<>>)
       => OneTokenAhead(results[1], 1, Len(input))
    /\ (src.fam = "paren" /\ src.close = S(<<")">>) /\ results # <<>>)
       => OneTokenAhead(results[1], 1, Len(input))
    /\ (src.fam = "proto" /\ ProtoOutcome(src.toks).ok /\ results # <<>>)
       => OneTokenAhead(results[1], 1, ProtoEnd(3 + Len(ProtoOutcome(src.toks).ast.Args)))
    /\ src.fam = "prog"
       => \A k \in DOMAIN results :
             (\A j \in 1..k : src.items[j] \in WellFormedItems)
             => OneTokenAhead(results[k], IF k = 1 THEN 1 ELSE ItemEnd(k - 1) + 2, ItemEnd(k))
    /\ (src.fam = "pair" /\ Len(results) >= 1)
       => OneTokenAhead(results[1], 1, Len(PairForms[src.first]))
    /\ (src.fam = "pair" /\ Len(results) >= 2)
       => OneTokenAhead(results[2], Len(PairForms[src.first]) + 2, Len(input))

\* 42 3: the first expression is the literal 42, its parse stops at the
\* number behind it, read to its end; the second is the literal 3.
C22_Witness ==
    /\ src.fam = "pair"
    /\ input = S(<<"4","2"," ","3">>)
    /\ Len(results) = 2
    /\ results[1].ast = Anon(Num(42))
    /\ results[1].stop = tok_number
    /\ results[1].stopAt = 5
    /\ results[2].ast = Anon(Num(3))
    /\ results[2].stop = tok_eof

(***************************************************************************)
(* The named values a body is lowered with.                                *)
(***************************************************************************)

\* The names of a sequence are pairwise different.
Distinct(s) == \A i, j \in DOMAIN s : s[i] = s[j] => i = j

\* The form is a definition or a top-level expression that was parsed, with
\* pairwise different parameter names.
IsFunctionDef(r) ==
    /\ r.kind \in {"def", "expr"}
    /\ r.ast # Null
    /\ Distinct(r.ast.Proto.Args)

\* C23: when a FunctionDef is lowered, the named values its body is lowered
\* with are exactly the parameter names of its own Prototype, whatever forms
\* came before it; after extern f(a), def f(b) b has b in scope.
C23_ScopeIsOwnParameters ==
    \A i \in DOMAIN results :
        IsFunctionDef(results[i])
        => results[i].scope = Range(results[i].ast.Proto.Args)

\* The same for a FunctionDef whose name no earlier form of the session
\* declared or defined.
C23_ScopeIsOwnParametersOfNewName ==
    \A i \in DOMAIN results :
        (/\ IsFunctionDef(results[i])
         /\ results[i].kind = "def"
         /\ \A j \in 1..(i - 1) :
               results[j].ast # Null => ProtoOf(results[j]).Name # results[i].ast.Proto.Name)
        => results[i].scope = Range(results[i].ast.Proto.Args)

(***************************************************************************)
(* The registry after a definition whose body was not lowered.             *)
(***************************************************************************)

\* The form is a definition that was parsed and whose body failed to lower.
FailedBody(r) == r.kind = "def" /\ r.ast # Null /\ r.ir = Null

\* Every prototype named n among the first j - 1 forms has m parameters.
AllProtosHave(n, m, j) ==
    \A k \in 1..(j - 1) :
        (results[k].ast # Null /\ ProtoOf(results[k]).Name = n)
        => Len(ProtoOf(results[k]).Args) = m

\* C24: FunctionAST::codegen records the definition's Prototype in the
\* registry before it lowers the body, so after a body that failed to lower
\* the function is erased from the open module but the registry keeps its
\* entry, and a later Call of the name is not refused with "Unknown function
\* referenced": with the matching number of arguments it is lowered against
\* a declaration.
C24_RegistryKeepsFailedDefinition ==
    \A i \in DOMAIN results :
        FailedBody(results[i])
        => /\ results[i].ast.Proto.Name \in DOMAIN FunctionProtos
           /\ i = Len(results)
              => /\ FunctionProtos[results[i].ast.Proto.Name] = results[i].ast.Proto
                 /\ results[i].ast.Proto.Name \notin DOMAIN TheModule
           /\ \A j \in (i + 1)..Len(results) :
                 /\ results[i].ast.Proto.Name \notin Range(results[j].unknown)
                 /\ (/\ IsCallOf(results[j], results[i].ast.Proto.Name,
                                 Len(results[i].ast.Proto.Args))
                     /\ AllProtosHave(results[i].ast.Proto.Name,
                                      Len(results[i].ast.Proto.Args), j))
                    => /\ results[j].ir # Null
                       /\ results[j].diags = 0

\* def f(a) c;f(1): the body fails on the unknown variable c, and that is
\* the only diagnostic: the call f(1) behind it is lowered.
C24_Witness ==
    /\ src.fam = "prog"
    /\ input = S(<<"d","e","f"," ","f","(","a",")"," ","c",";","f","(","1",")">>)
    /\ Len(results) = 2
    /\ FailedBody(results[1])
    /\ IsCallOf(results[2], S(<<"f">>), 1)
    /\ results[2].ir # Null
    /\ results[2].unknown = <<>>
    /\ log = <<"Unknown variable name">>
    /\ S(<<"f">>) \in DOMAIN FunctionProtos

====
